---- MODULE Spec2Model ----
(***************************************************************************)
(* Gallery editor (app/gallery/page.tsx): the pending list, the save       *)
(* pipeline, the snapshot projection and the drag/resize adapter, as a     *)
(* state machine.  One action per handler or continuation of an await.     *)
(***************************************************************************)
EXTENDS Integers, Sequences, FiniteSets, TLC

VARIABLES
  pending,    \* useState<PendingFile[]>: the pending list
  items,      \* useState<GalleryItem[]>: the persisted list shown
  isSaving,   \* useState(false)
  snap,       \* useState(true)
  mounted,    \* the page component is mounted
  urls,       \* object URLs created by URL.createObjectURL and not yet revoked
  nextUrl,    \* the next object URL the browser hands out
  docs,       \* the remote collection galleries/default/items, in creation order
  selects,    \* onSelect invocations suspended in readImageDims
  saves,      \* onSave invocations suspended in an upload, URL fetch or write
  el,         \* the DOM element under a gesture: dataset.x/y and rendered size
  gestures,   \* gestures started so far
  lastOp      \* history: the handler that ran last, with its arguments

vars == <<pending, items, isSaving, snap, mounted, urls, nextUrl, docs,
          selects, saves, el, gestures, lastOp>>

(* ------------------------------ bounds ------------------------------- *)
MaxFiles == 3
MaxDocs == 3
MaxMoves == 2
MaxGestures == 1

(* --------------------------- JS numbers ------------------------------ *)
\* A JS number: a finite integer, NaN, +Infinity or -Infinity; or undefined.
Num(n) == [t |-> "num", v |-> n]
NaN == [t |-> "NaN", v |-> 0]
Infinity == [t |-> "Infinity", v |-> 0]
NegInfinity == [t |-> "-Infinity", v |-> 0]
undefined == [t |-> "undefined", v |-> 0]

IsFinite(a) == a.t = "num"

\* a + b on numbers
JsAdd(a, b) ==
  IF a.t = "NaN" \/ b.t = "NaN" \/ a.t = "undefined" \/ b.t = "undefined" THEN NaN
  ELSE IF a.t = "num" /\ b.t = "num" THEN Num(a.v + b.v)
  ELSE IF a.t = "num" THEN b
  ELSE IF b.t = "num" THEN a
  ELSE IF a.t = b.t THEN a
  ELSE NaN

\* a ?? d
Nullish(a, d) == IF a.t = "undefined" THEN d ELSE a

\* a || d : undefined, NaN and 0 are falsy
OrElse(a, d) ==
  IF a.t = "undefined" \/ a.t = "NaN" \/ (a.t = "num" /\ a.v = 0) THEN d ELSE a

\* String(a): the text written to el.dataset
JsString(a) == [text |-> IF a.t = "num" THEN "decimal" ELSE a.t, digits |-> a.v]

\* parseFloat(s)
parseFloat(s) ==
  CASE s.text = "decimal" -> Num(s.digits)
    [] s.text = "Infinity" -> Infinity
    [] s.text = "-Infinity" -> NegInfinity
    [] OTHER -> NaN

\* parseFloat(el.dataset.x || "0") || 0   (the stored text is never empty)
ReadDataset(s) == OrElse(parseFloat(s), Num(0))

\* the size taken as delivered, without the lower bound
MathMaxNone(m, a) == a

\* Math.max(m, a) for a finite m
MathMax(m, a) ==
  CASE a.t = "num" -> Num(IF a.v > m THEN a.v ELSE m)
    [] a.t = "Infinity" -> Infinity
    [] a.t = "-Infinity" -> Num(m)
    [] OTHER -> NaN

(* ---------------------------- files ---------------------------------- *)
\* The files the picker can supply, and what the browser reads from each:
\* a.png is 1200 x 800, b.png is 400 x 1200, wide.png is 1200 x 400,
\* icon.png is 64 x 48, c.bin is no image (onerror).
Files == {"a.png", "b.png", "wide.png", "icon.png", "c.bin"}
NoDims == [ok |-> FALSE, w |-> 0, h |-> 0]

readImageDims(f) ==
  CASE f = "a.png" -> [ok |-> TRUE, w |-> 1200, h |-> 800]
    [] f = "b.png" -> [ok |-> TRUE, w |-> 400, h |-> 1200]
    [] f = "wide.png" -> [ok |-> TRUE, w |-> 1200, h |-> 400]
    [] f = "icon.png" -> [ok |-> TRUE, w |-> 64, h |-> 48]
    [] OTHER -> NoDims

baseW == 260
MinBaseH == 160

\* Math.round(baseW * n / d), halves rounded up, for n, d >= 0, d > 0
RoundMul(b, n, d) == (2 * b * n + d) \div (2 * d)

\* ratio as <<numerator, denominator>>:
\* dims && dims.w > 0 ? Math.max(0.3, dims.h / dims.w) : 0.66
ratio(dims) ==
  IF dims.ok /\ dims.w > 0
  THEN IF 10 * dims.h < 3 * dims.w THEN <<3, 10>> ELSE <<dims.h, dims.w>>
  ELSE <<66, 100>>

\* mutant: the rounded height without the lower bound of 160
baseHUnclamped(dims) == RoundMul(baseW, ratio(dims)[1], ratio(dims)[2])

\* Math.max(160, Math.round(baseW * ratio))
baseH(dims) ==
  LET r == RoundMul(baseW, ratio(dims)[1], ratio(dims)[2])
  IN IF r > MinBaseH THEN r ELSE MinBaseH

OffsetStep == 16

\* the PendingFile pushed for file f with preview URL u, n entries before it
NewEntry(f, u, n) ==
  [file |-> f, previewUrl |-> u, w |-> baseW, h |-> baseH(readImageDims(f)),
   x |-> Num(OffsetStep * n), y |-> Num(OffsetStep * n)]

(* --------------------------- sequences ------------------------------- *)
RemoveAt(s, i) == [j \in 1..(Len(s) - 1) |-> IF j < i THEN s[j] ELSE s[j + 1]]

\* mutant: the collection in the order written, oldest first
SameOrder(s) == s

\* orderBy("createdAt", "desc") over documents appended in time order
Reverse(s) == [j \in 1..Len(s) |-> s[Len(s) + 1 - j]]

Range(s) == {s[j] : j \in DOMAIN s}

PreviewUrls(s) == {s[j].previewUrl : j \in DOMAIN s}

(* ----------------------------- state --------------------------------- *)
NoEl == [idx |-> 0, kind |-> "none", x |-> JsString(Num(0)), y |-> JsString(Num(0)),
         w |-> 0, h |-> 0, moves |-> 0, sumX |-> 0, sumY |-> 0, finite |-> TRUE]

Op(name, a, b) == [op |-> name, a |-> a, b |-> b]

\* a handler whose run the history does not name
Other == Op("other", 0, 0)

\* the pending list captured by the unmount cleanup: the first render's
MountPending == <<>>

Init ==
  /\ pending = <<>>
  /\ items = <<>>
  /\ isSaving = FALSE
  /\ snap = TRUE
  /\ mounted = TRUE
  /\ urls = {}
  /\ nextUrl = 1
  /\ docs = <<>>
  /\ selects = {}
  /\ saves = <<>>
  /\ el = NoEl
  /\ gestures = 0
  /\ lastOp = Other

\* a setState call: ignored once the component is unmounted
SetState(old, new) == IF mounted THEN new ELSE old

\* every in-flight save sees that the user acted during it
Disturb(removedUrls) ==
  [k \in DOMAIN saves |->
     [saves[k] EXCEPT !.quiet = FALSE,
                      !.removed = @ \cup (removedUrls \cap PreviewUrls(saves[k].batch))]]


(* --------------------------- file selection -------------------------- *)
\* object URLs still to be created by the onSelect invocations in flight
RECURSIVE Reserved(_)
Reserved(S) ==
  IF S = {} THEN 0
  ELSE LET s == CHOOSE s \in S : TRUE
       IN (Len(s.files) - 1) + Reserved(S \ {s})

FileLists(F, n) == UNION {[1..k -> F] : k \in 1..n}

\* mutant: the new entries put in front, [...entries, ...prev]
PrependEntries(prev, entries) == entries \o prev

\* setPending((prev) => [...prev, ...entries])
AppendEntries(prev, entries) == prev \o entries

\* onSelect with no file: returns at once
onSelectNone ==
  /\ mounted
  /\ lastOp' = Op("onSelectNone", 0, 0)
  /\ saves' = Disturb({})
  /\ UNCHANGED <<pending, items, isSaving, snap, mounted, urls, nextUrl, docs,
                 selects, el, gestures>>

\* onSelect up to its first await: the first file's preview URL is created
onSelect(fs) ==
  /\ mounted
  /\ (nextUrl - 1) + Reserved(selects) + Len(fs) <= MaxFiles
  /\ selects' = selects \cup
       {[files |-> fs, count |-> Len(fs), cur |-> nextUrl, n0 |-> Len(pending),
         entries |-> <<>>]}
  /\ urls' = urls \cup {nextUrl}
  /\ nextUrl' = nextUrl + 1
  /\ saves' = Disturb({})
  /\ lastOp' = Other
  /\ UNCHANGED <<pending, items, isSaving, snap, mounted, docs, el, gestures>>

\* the entries of invocation s once readImageDims of its current file resolves
Built(s) ==
  Append(s.entries, NewEntry(Head(s.files), s.cur, s.n0 + Len(s.entries)))

\* readImageDims resolves and another file follows: push, next createObjectURL
onSelectNext(s) ==
  /\ Len(s.files) > 1
  /\ selects' = (selects \ {s}) \cup
       {[s EXCEPT !.files = Tail(s.files), !.cur = nextUrl, !.entries = Built(s)]}
  /\ urls' = urls \cup {nextUrl}
  /\ nextUrl' = nextUrl + 1
  /\ saves' = Disturb({})
  /\ lastOp' = Other
  /\ UNCHANGED <<pending, items, isSaving, snap, mounted, docs, el, gestures>>

\* readImageDims of the last file resolves: push, then setPending
onSelectCommit(s) ==
  /\ Len(s.files) = 1
  /\ selects' = selects \ {s}
  /\ pending' = SetState(pending, AppendEntries(pending, Built(s)))
  /\ el' = IF mounted THEN NoEl ELSE el
  /\ saves' = Disturb({})
  /\ lastOp' = Op("onSelectCommit", s.count, 0)
  /\ UNCHANGED <<items, isSaving, snap, mounted, urls, nextUrl, docs, gestures>>

(* ----------------------- the Uploader component --------------------- *)
\* The Uploader keeps the same pending list, saving flag, removeOne, onSave
\* and unmount cleanup as the page, statement for statement; it differs in
\* the PendingFile it pushes and in the fields addDoc writes.  Its entries
\* have no x and y, kept here as undefined, so that DocOf writes w: p.w and
\* h: p.h and an absent x and y.

\* dims?.w, dims?.h
OptionalDim(dims, v) == IF dims.ok THEN Num(v) ELSE undefined

\* { file: f, previewUrl, w: dims?.w, h: dims?.h }
UploaderEntry(f, u) ==
  LET dims == readImageDims(f)
  IN [file |-> f, previewUrl |-> u,
      w |-> OptionalDim(dims, dims.w), h |-> OptionalDim(dims, dims.h),
      x |-> undefined, y |-> undefined]

UploaderBuilt(s) == Append(s.entries, UploaderEntry(Head(s.files), s.cur))

\* Uploader.onSelect: readImageDims resolves and another file follows
uploaderSelectNext(s) ==
  /\ Len(s.files) > 1
  /\ selects' = (selects \ {s}) \cup
       {[s EXCEPT !.files = Tail(s.files), !.cur = nextUrl,
                  !.entries = UploaderBuilt(s)]}
  /\ urls' = urls \cup {nextUrl}
  /\ nextUrl' = nextUrl + 1
  /\ saves' = Disturb({})
  /\ lastOp' = Other
  /\ UNCHANGED <<pending, items, isSaving, snap, mounted, docs, el, gestures>>

\* Uploader.onSelect: readImageDims of the last file resolves, setPending
uploaderSelectCommit(s) ==
  /\ Len(s.files) = 1
  /\ selects' = selects \ {s}
  /\ pending' = SetState(pending, AppendEntries(pending, UploaderBuilt(s)))
  /\ saves' = Disturb({})
  /\ lastOp' = Op("onSelectCommit", s.count, 0)
  /\ UNCHANGED <<items, isSaving, snap, mounted, urls, nextUrl, docs, el,
                 gestures>>

(* ------------------------------ removal ------------------------------ *)
\* mutant: the last entry dropped whatever idx is, copy.pop()
spliceLast(copy, idx) == RemoveAt(copy, Len(copy))

\* copy.splice(idx, 1): the list without its idx-th entry
splice(copy, idx) == RemoveAt(copy, idx)

\* mutant: the revoke call left out
revokeNothing(us, live) == live

\* URL.revokeObjectURL(u) for every u of us
revokeObjectURL(us, live) == live \ us

removeOne(idx) ==
  /\ mounted
  /\ idx \in DOMAIN pending
  /\ pending' = splice(pending, idx)
  /\ urls' = revokeObjectURL({pending[idx].previewUrl}, urls)
  /\ el' = NoEl
  /\ saves' = Disturb({pending[idx].previewUrl})
  /\ lastOp' = Op("removeOne", idx, 0)
  /\ UNCHANGED <<items, isSaving, snap, mounted, nextUrl, docs, selects, gestures>>

(* ---------------------------- save pipeline -------------------------- *)
\* mutant: the isSaving conjunct left out
canSaveAnyTime == Len(pending) > 0

\* pending.length > 0 && !isSaving
canSave == Len(pending) > 0 /\ ~isSaving

\* the fields addDoc writes for pending entry p (of: the entry it was made from)
DocOf(p) == [fileName |-> p.file, of |-> p.previewUrl,
             x |-> p.x, y |-> p.y, w |-> p.w, h |-> p.h]

\* mutant: the loop reads the last entry of the captured list
LoopEntryLast(sv) == sv.batch[Len(sv.batch)]

\* for (const p of pending): the entry of the captured list the loop is at
LoopEntry(sv) == sv.batch[sv.i]

\* mutant: the document is written before the URL is fetched
NextStepSwapped(step) ==
  CASE step = "uploadBytes" -> "addDoc"
    [] step = "addDoc" -> "getDownloadURL"
    [] OTHER -> "uploadBytes"

\* the operation awaited after `step` succeeds
NextStep(step) ==
  CASE step = "uploadBytes" -> "getDownloadURL"
    [] step = "getDownloadURL" -> "addDoc"
    [] OTHER -> "uploadBytes"

\* the save button: onSave up to its first await
onSave ==
  /\ mounted
  /\ canSave
  /\ Len(docs) + Len(pending) <= MaxDocs
  /\ saves' = Append(saves,
       [batch |-> pending, i |-> 1, step |-> "uploadBytes", log |-> <<>>,
        docs0 |-> Len(docs), quiet |-> TRUE, removed |-> {}])
  /\ isSaving' = TRUE
  /\ el' = NoEl
  /\ lastOp' = Other
  /\ UNCHANGED <<pending, items, snap, mounted, urls, nextUrl, docs, selects,
                 gestures>>

Logged(sv) == Append(sv.log, <<sv.step, sv.i>>)

\* mutant: no finally block, the flag stays as the save set it
FinallyNothing(saving) == saving

\* finally { setIsSaving(false) }
Finally(saving) == SetState(saving, FALSE)

\* the save button's text, without the count: isSaving ? "Saving..." : "Save"
SaveLabel == IF isSaving THEN "Saving" ELSE "Save"

\* the save button's disabled attribute
SaveDisabled == ~canSave

\* uploadBytes or getDownloadURL resolves: the next operation is awaited
awaitResolves(k) ==
  /\ k \in DOMAIN saves
  /\ saves[k].step \in {"uploadBytes", "getDownloadURL"}
  /\ saves' = [saves EXCEPT ![k] =
       [@ EXCEPT !.step = NextStep(saves[k].step), !.log = Logged(saves[k])]]
  /\ lastOp' = Other
  /\ UNCHANGED <<pending, items, isSaving, snap, mounted, urls, nextUrl, docs,
                 selects, el, gestures>>

\* addDoc resolves and another entry follows in the captured list
addDocNext(k) ==
  /\ k \in DOMAIN saves
  /\ saves[k].step = "addDoc"
  /\ saves[k].i < Len(saves[k].batch)
  /\ docs' = Append(docs, DocOf(LoopEntry(saves[k])))
  /\ saves' = [saves EXCEPT ![k] =
       [@ EXCEPT !.i = @ + 1, !.step = NextStep(saves[k].step),
                 !.log = Logged(saves[k])]]
  /\ lastOp' = Other
  /\ UNCHANGED <<pending, items, isSaving, snap, mounted, urls, nextUrl,
                 selects, el, gestures>>

\* addDoc of the last entry resolves: revoke the previews, clear, finally
addDocLast(k) ==
  /\ k \in DOMAIN saves
  /\ saves[k].step = "addDoc"
  /\ saves[k].i = Len(saves[k].batch)
  /\ docs' = Append(docs, DocOf(LoopEntry(saves[k])))
  /\ urls' = revokeObjectURL(PreviewUrls(saves[k].batch), urls)
  /\ pending' = SetState(pending, <<>>)
  /\ isSaving' = Finally(isSaving)
  /\ saves' = RemoveAt(saves, k)
  /\ el' = IF mounted THEN NoEl ELSE el
  /\ lastOp' = Op("saved", k, [saves[k] EXCEPT !.log = Logged(saves[k])])
  /\ UNCHANGED <<items, snap, mounted, nextUrl, selects, gestures>>

\* the awaited operation rejects: the loop is left, finally runs
awaitRejects(k) ==
  /\ k \in DOMAIN saves
  /\ isSaving' = Finally(isSaving)
  /\ saves' = RemoveAt(saves, k)
  /\ el' = IF mounted THEN NoEl ELSE el
  /\ lastOp' = Op("saveFailed", k, saves[k])
  /\ UNCHANGED <<pending, items, snap, mounted, urls, nextUrl, docs, selects, gestures>>

(* ------------------------ snapshot subscription ---------------------- *)
\* onSnapshot callback: the collection ordered by createdAt descending
onSnapshot ==
  /\ mounted
  /\ items # Reverse(docs)
  /\ items' = Reverse(docs)
  /\ el' = NoEl
  /\ lastOp' = Other
  /\ UNCHANGED <<pending, isSaving, snap, mounted, urls, nextUrl, docs, selects,
                 saves, gestures>>

(* ------------------------ snap toggle, unmount ----------------------- *)
setSnap ==
  /\ mounted
  /\ snap' = ~snap
  /\ el' = NoEl
  /\ saves' = Disturb({})
  /\ lastOp' = Other
  /\ UNCHANGED <<pending, items, isSaving, mounted, urls, nextUrl, docs, selects,
                 gestures>>

\* unmount: the cleanup effects run (object URLs, unsub, interact unset)
unmount ==
  /\ mounted
  /\ mounted' = FALSE
  /\ urls' = revokeObjectURL(PreviewUrls(MountPending), urls)
  /\ el' = NoEl
  /\ saves' = Disturb({})
  /\ lastOp' = Op("unmount", 0, 0)
  /\ UNCHANGED <<pending, items, isSaving, snap, nextUrl, docs, selects,
                 gestures>>


(* ----------------------- drag / resize adapter ----------------------- *)
MinSize == 80
SnapStep == 8

\* the effect's init: style and dataset of item idx set from its props
InitEl(idx, kind) ==
  [idx |-> idx, kind |-> kind,
   x |-> JsString(pending[idx].x), y |-> JsString(pending[idx].y),
   w |-> pending[idx].w, h |-> pending[idx].h,
   moves |-> 0, sumX |-> 0, sumY |-> 0, finite |-> TRUE]

\* mutant: the stored offset is not added, nx = event.dx ?? 0
dragToDelta(data, d) == Nullish(d, Num(0))

\* draggable move: (parseFloat(el.dataset.x || "0") || 0) + (event.dx ?? 0)
dragTo(data, d) == JsAdd(ReadDataset(data), Nullish(d, Num(0)))

\* resizable move: (parseFloat(el.dataset.x || "0") || 0) + (event.deltaRect?.left || 0)
resizeTo(data, d) == JsAdd(ReadDataset(data), OrElse(d, Num(0)))

\* el.style.width = width + "px": a length that is no finite number is dropped
SetStyleSize(old, v) == IF IsFinite(v) THEN v.v ELSE old

\* el.clientWidth / el.clientHeight of an element whose style size is s
clientSize(s) == s

\* the layout onChange is called with at gesture end
Reported(e) ==
  [x |-> ReadDataset(e.x), y |-> ReadDataset(e.y),
   w |-> clientSize(e.w), h |-> clientSize(e.h)]

\* mutant: only the position taken over from the reported layout
MergePosition(p, next) == [p EXCEPT !.x = next.x, !.y = next.y]

\* copy[idx] = { ...copy[idx], ...next }
Merge(p, next) == [p EXCEPT !.x = next.x, !.y = next.y, !.w = next.w, !.h = next.h]

Finite0(d) == IF IsFinite(d) THEN d.v ELSE 0

gestureStart(idx, kind) ==
  /\ mounted
  /\ el = NoEl
  /\ gestures < MaxGestures
  /\ idx \in DOMAIN pending
  /\ el' = InitEl(idx, kind)
  /\ gestures' = gestures + 1
  /\ saves' = Disturb({})
  /\ lastOp' = Other
  /\ UNCHANGED <<pending, items, isSaving, snap, mounted, urls, nextUrl, docs,
                 selects>>

dragMove(dx, dy) ==
  /\ el.kind = "drag"
  /\ el.moves < MaxMoves
  /\ el' = [el EXCEPT !.x = JsString(dragTo(el.x, dx)),
                      !.y = JsString(dragTo(el.y, dy)),
                      !.moves = @ + 1,
                      !.sumX = @ + Finite0(dx), !.sumY = @ + Finite0(dy),
                      !.finite = @ /\ IsFinite(dx) /\ IsFinite(dy)]
  /\ lastOp' = Other
  /\ UNCHANGED <<pending, items, isSaving, snap, mounted, urls, nextUrl, docs,
                 selects, saves, gestures>>

resizeMove(width, height, left, top) ==
  /\ el.kind = "resize"
  /\ el.moves < MaxMoves
  /\ el' = [el EXCEPT !.w = SetStyleSize(el.w, MathMax(MinSize, width)),
                      !.h = SetStyleSize(el.h, MathMax(MinSize, height)),
                      !.x = JsString(resizeTo(el.x, left)),
                      !.y = JsString(resizeTo(el.y, top)),
                      !.moves = @ + 1,
                      !.sumX = @ + Finite0(left), !.sumY = @ + Finite0(top),
                      !.finite = @ /\ IsFinite(width) /\ IsFinite(height)
                                   /\ IsFinite(left) /\ IsFinite(top)]
  /\ lastOp' = Other
  /\ UNCHANGED <<pending, items, isSaving, snap, mounted, urls, nextUrl, docs,
                 selects, saves, gestures>>

\* draggable end / resizable end: onChange, then the page's setPending
gestureEnd ==
  /\ el.kind \in {"drag", "resize"}
  /\ pending' = [pending EXCEPT ![el.idx] = Merge(@, Reported(el))]
  /\ el' = NoEl
  /\ saves' = Disturb({})
  /\ lastOp' = Op(IF el.kind = "drag" THEN "dragEnd" ELSE "resizeEnd", el.idx, el)
  /\ UNCHANGED <<items, isSaving, snap, mounted, urls, nextUrl, docs, selects,
                 gestures>>

(* ---------------------- what the library delivers -------------------- *)
\* drag deltas: with the snap modifier, differences of grid points
DragDeltas(snapped) ==
  IF snapped THEN {Num(SnapStep), Num(-SnapStep)} ELSE {Num(SnapStep), Num(3)}

Malformed == {undefined, NaN, Infinity}

\* drag move events <<dx, dy>>: well formed, or with one malformed component
DragEvents(snapped) ==
  (DragDeltas(snapped) \X DragDeltas(snapped))
    \cup {<<m, Num(SnapStep)>> : m \in Malformed}
    \cup {<<Num(SnapStep), m>> : m \in Malformed}

RectSizes == {Num(64), Num(96)}
RectDeltas == {Num(0), Num(-SnapStep)}

\* resize move events <<rect.width, rect.height, deltaRect.left, deltaRect.top>>
ResizeEvents ==
  (RectSizes \X RectSizes \X RectDeltas \X RectDeltas)
    \cup {<<m, Num(96), Num(0), Num(0)>> : m \in Malformed}
    \cup {<<Num(96), m, Num(0), Num(0)>> : m \in Malformed}
    \cup {<<Num(96), Num(96), m, Num(0)>> : m \in Malformed}
    \cup {<<Num(96), Num(96), Num(0), m>> : m \in Malformed}

(* --------------------------- specifications -------------------------- *)
\* the page: every handler; a gesture is a drag of one move event by one grid step
Next ==
  \/ onSelectNone
  \/ \E fs \in FileLists({"a.png"}, MaxFiles) : onSelect(fs)
  \/ \E s \in selects : onSelectNext(s)
  \/ \E s \in selects : onSelectCommit(s)
  \/ \E idx \in DOMAIN pending : removeOne(idx)
  \/ onSave
  \/ \E k \in DOMAIN saves : awaitResolves(k)
  \/ \E k \in DOMAIN saves : addDocNext(k)
  \/ \E k \in DOMAIN saves : addDocLast(k)
  \/ \E k \in DOMAIN saves : awaitRejects(k)
  \/ onSnapshot
  \/ unmount
  \/ \E idx \in DOMAIN pending : gestureStart(idx, "drag")
  \/ (el.moves = 0 /\ dragMove(Num(SnapStep), Num(0)))
  \/ gestureEnd

Spec == Init /\ [][Next]_vars

\* the adapter: single files put on the canvas, every kind of gesture input
GestureNext ==
  \/ \E fs \in FileLists({"a.png", "c.bin"}, 1) : selects = {} /\ onSelect(fs)
  \/ \E s \in selects : onSelectCommit(s)
  \/ setSnap
  \/ \E idx \in DOMAIN pending, kind \in {"drag", "resize"} : gestureStart(idx, kind)
  \/ \E e \in DragEvents(snap) : dragMove(e[1], e[2])
  \/ \E e \in ResizeEvents : resizeMove(e[1], e[2], e[3], e[4])
  \/ gestureEnd

GestureSpec == Init /\ [][GestureNext]_vars

\* the Uploader: selection of readable images, removal, the save pipeline
\* and unmount
UploaderNext ==
  \/ onSelectNone
  \/ \E fs \in FileLists({"a.png", "icon.png"}, MaxFiles) : onSelect(fs)
  \/ \E s \in selects : uploaderSelectNext(s)
  \/ \E s \in selects : uploaderSelectCommit(s)
  \/ \E idx \in DOMAIN pending : removeOne(idx)
  \/ onSave
  \/ \E k \in DOMAIN saves : awaitResolves(k)
  \/ \E k \in DOMAIN saves : addDocNext(k)
  \/ \E k \in DOMAIN saves : addDocLast(k)
  \/ \E k \in DOMAIN saves : awaitRejects(k)
  \/ unmount

UploaderSpec == Init /\ [][UploaderNext]_vars

\* the file input alone: any files of the picker, and the remove buttons
SelectNext ==
  \/ onSelectNone
  \/ \E fs \in FileLists(Files, MaxFiles) : onSelect(fs)
  \/ \E s \in selects : onSelectNext(s)
  \/ \E s \in selects : onSelectCommit(s)
  \/ \E idx \in DOMAIN pending : removeOne(idx)

SelectSpec == Init /\ [][SelectNext]_vars

(* ------------------------------ claims ------------------------------- *)
\* the save that ended in the step just taken
Ended == lastOp.b

\* C1: when a save of N pending items runs with every upload, URL fetch and
\* write succeeding and no other user action during it, then at its completion
\* exactly N new documents (one per item, in order) have been written, the
\* pending list is empty and every preview URL of the N items is revoked.
C1_SaveAllSucceed ==
  [][(lastOp'.op = "saved" /\ lastOp'.b.quiet) =>
       LET sv == lastOp'.b
           n == Len(sv.batch)
       IN /\ Len(docs') = sv.docs0 + n
          /\ SubSeq(docs', 1, sv.docs0) = SubSeq(docs, 1, sv.docs0)
          /\ \A j \in 1..n : docs'[sv.docs0 + j].of = sv.batch[j].previewUrl
          /\ pending' = <<>>
          /\ PreviewUrls(sv.batch) \cap urls' = {}]_vars

C1_Witness ==
  /\ lastOp.op = "saved"
  /\ Ended.quiet
  /\ Len(Ended.batch) = 3
  /\ Len(docs) = 3
  /\ pending = <<>>

\* a save of three items has just failed in the upload of its second item
FailedSecondOfThree ==
  /\ lastOp.op = "saveFailed"
  /\ Len(Ended.batch) = 3
  /\ Ended.i = 2
  /\ Ended.step = "uploadBytes"

\* what C2 says of the documents and of the third item
C2_Documents(sv, before, after) ==
     /\ \E j \in (sv.docs0 + 1)..Len(after) : after[j].of = sv.batch[1].previewUrl
     /\ \A e \in Range(sv.log) : e[2] # 3
     /\ after = before

\* C2 as stated: ... no document exists for the second or third item, and the
\* second and third items are still in the pending list.
C2_Original ==
  [][FailedSecondOfThree' =>
       /\ C2_Documents(Ended', docs, docs')
       /\ \A d \in Range(docs') :
            d.of \notin {Ended'.batch[2].previewUrl, Ended'.batch[3].previewUrl}
       /\ {Ended'.batch[2].previewUrl, Ended'.batch[3].previewUrl}
            \subseteq PreviewUrls(pending')]_vars


\* C2 (amended): if a save of three pending items is triggered and the upload
\* of the second item fails, then the first item's document has been written,
\* that save attempts no upload or write for the third item and writes no
\* document for the second or third item, no document is deleted, and the
\* second and third items are still in the pending list unless the user
\* removed them while the save was in flight.
C2_SecondUploadFails ==
  [][FailedSecondOfThree' =>
       LET sv == Ended'
           rest == {sv.batch[2].previewUrl, sv.batch[3].previewUrl}
       IN /\ C2_Documents(sv, docs, docs')
          /\ \A j \in (sv.docs0 + 1)..Len(docs') : docs'[j].of \notin rest
          /\ pending' = pending
          /\ \A u \in rest : u \in PreviewUrls(pending') \/ u \in sv.removed]_vars

C2_Witness ==
  /\ FailedSecondOfThree
  /\ Len(docs) = 1
  /\ Ended.removed = {Ended.batch[3].previewUrl}
  /\ Ended.batch[2].previewUrl \in PreviewUrls(pending)


\* C3: at most one onSave invocation is in flight at any time, and while one
\* is in flight (the component mounted) isSaving is true and the save button
\* is disabled.
C3_OneSaveInFlight ==
  /\ Len(saves) <= 1
  /\ (saves # <<>> /\ mounted) => (isSaving /\ ~canSave)

C3_Witness ==
  /\ Len(saves) = 1
  /\ mounted
  /\ Len(pending) > 0
  /\ saves[1].i = 2

\* the operations of a save of n entries, in the order the claim gives
PipelineOrder(n) ==
  [j \in 1..(3 * n) |->
     << <<"uploadBytes", "getDownloadURL", "addDoc">>[((j - 1) % 3) + 1],
        ((j - 1) \div 3) + 1 >>]

\* C4: a save works through its captured list one entry at a time, in list
\* order: the operations completed so far are a prefix of upload(1), url(1),
\* write(1), upload(2), ..., the one awaited is the next of that order, and
\* the documents written so far are those of the completed writes.
C4_Sequential ==
  /\ \A k \in DOMAIN saves :
       LET sv == saves[k]
           order == PipelineOrder(Len(sv.batch))
       IN /\ Len(sv.log) < Len(order)
          /\ sv.log = SubSeq(order, 1, Len(sv.log))
          /\ order[Len(sv.log) + 1] = <<sv.step, sv.i>>
          /\ Len(docs) = sv.docs0 + (sv.i - 1)
          /\ \A j \in 1..(sv.i - 1) : docs[sv.docs0 + j].of = sv.batch[j].previewUrl
  /\ lastOp.op = "saved" => Ended.log = PipelineOrder(Len(Ended.batch))

C4_Witness ==
  /\ Len(saves) = 1
  /\ Len(saves[1].batch) = 3
  /\ saves[1].i = 3
  /\ saves[1].step = "addDoc"

\* C5 as stated: the document written for an entry carries the x, y, w, h the
\* entry has in the pending list at the moment the document is written.
C5_CurrentLayout ==
  [][Len(docs') = Len(docs) + 1 =>
       \A j \in DOMAIN pending :
         pending[j].previewUrl = docs'[Len(docs')].of =>
           /\ docs'[Len(docs')].x = pending[j].x
           /\ docs'[Len(docs')].y = pending[j].y
           /\ docs'[Len(docs')].w = pending[j].w
           /\ docs'[Len(docs')].h = pending[j].h]_vars

\* C6 as stated: once the component is torn down, the preview URL of every
\* entry that was in the pending list is revoked.
C6_TeardownReleases ==
  [][lastOp'.op = "unmount" =>
       \A j \in DOMAIN pending : pending[j].previewUrl \notin urls']_vars

\* C7: a file selection of k files that commits (its setPending reaching the
\* mounted component) makes the pending list exactly k longer, leaves the entries before it as they were and in their
\* order, and appends its entries in selection order (the order in which
\* their preview URLs were created); a selection of no file changes nothing.
C7_SelectAppends ==
  [][/\ (lastOp'.op = "onSelectCommit" /\ mounted) =>
          LET k == lastOp'.a
              n == Len(pending)
          IN /\ Len(pending') = n + k
             /\ SubSeq(pending', 1, n) = pending
             /\ \A i, j \in (n + 1)..(n + k) :
                  i < j => pending'[i].previewUrl < pending'[j].previewUrl
             /\ \A i \in (n + 1)..(n + k) :
                  pending'[i].previewUrl \notin PreviewUrls(pending)
     /\ lastOp'.op = "onSelectNone" => pending' = pending]_vars

C7_Witness ==
  /\ lastOp.op = "onSelectCommit"
  /\ lastOp.a = 2
  /\ Len(pending) = 3
  /\ pending[1].previewUrl > pending[2].previewUrl

\* C8: removeOne(i) makes the pending list one shorter, revokes exactly one
\* preview URL, that of the entry at index i, which was not revoked before,
\* and leaves every other entry and their order as they were.
C8_RemoveOne ==
  [][lastOp'.op = "removeOne" =>
       LET i == lastOp'.a
       IN /\ i \in DOMAIN pending
          /\ Len(pending') = Len(pending) - 1
          /\ pending[i].previewUrl \in urls
          /\ urls' = urls \ {pending[i].previewUrl}
          /\ \A j \in 1..(i - 1) : pending'[j] = pending[j]
          /\ \A j \in i..(Len(pending) - 1) : pending'[j] = pending[j + 1]]_vars

C8_Witness ==
  /\ lastOp.op = "removeOne"
  /\ lastOp.a = 2
  /\ Len(pending) = 2
  /\ Cardinality(urls) = 2

\* every coordinate of layout p is a finite multiple of the snap step
OnGrid(p) ==
  /\ IsFinite(p.x) /\ p.x.v % SnapStep = 0
  /\ IsFinite(p.y) /\ p.y.v % SnapStep = 0
  /\ p.w % SnapStep = 0
  /\ p.h % SnapStep = 0

\* C9 as stated: with snapping on, the layout reported at the end of a drag
\* or resize gesture of well-formed move events has x, y, w and h each a
\* multiple of 8.
C9_SnappedLayout ==
  (/\ lastOp.op \in {"dragEnd", "resizeEnd"}
   /\ lastOp.b.finite
   /\ snap) => OnGrid(pending[lastOp.a])

\* C10: a drag gesture of well-formed move events summing to (dx, dy) that
\* ends moves the entry's x and y by exactly (dx, dy) from where they were
\* before the gesture and leaves its w and h as they were; no other entry
\* changes.
C10_DragDisplacement ==
  [][(lastOp'.op = "dragEnd" /\ lastOp'.b.finite) =>
       LET i == lastOp'.a
           e == lastOp'.b
       IN /\ pending'[i].x = JsAdd(pending[i].x, Num(e.sumX))
          /\ pending'[i].y = JsAdd(pending[i].y, Num(e.sumY))
          /\ pending'[i].w = pending[i].w
          /\ pending'[i].h = pending[i].h
          /\ \A j \in DOMAIN pending : j # i => pending'[j] = pending[j]]_vars

C10_Witness ==
  /\ lastOp.op = "dragEnd"
  /\ lastOp.b.finite
  /\ lastOp.b.moves = 2
  /\ lastOp.b.sumX = 11
  /\ lastOp.b.sumY = 2 * SnapStep
  /\ lastOp.a = 2
  /\ pending[2].x = Num(OffsetStep + 11)

\* C11: a resize gesture that ends, whatever resize move events came before
\* the end, reports a width and a height that are both at least 80.
C11_ResizeMinimum ==
  lastOp.op = "resizeEnd" =>
    /\ pending[lastOp.a].w >= 80
    /\ pending[lastOp.a].h >= 80

\* a resize whose two move events asked for 64 x 64 ends at 80 x 80
C11_Witness ==
  /\ lastOp.op = "resizeEnd"
  /\ lastOp.b.moves = 2
  /\ lastOp.b.finite
  /\ pending[lastOp.a].w = 80
  /\ pending[lastOp.a].h = 80

\* C12: every document the save operations have written to the persisted
\* store, the Uploader's included, has a numeric w and h of at least 80.
C12_WrittenMinimum ==
  \A j \in DOMAIN docs :
    /\ IsFinite(docs[j].w) /\ docs[j].w.v >= 80
    /\ IsFinite(docs[j].h) /\ docs[j].h.v >= 80

\* C13: while a drag or resize gesture goes on, its move events leave the
\* pending list as it is; the step that ends the gesture is the one update
\* of the gesture: it closes the gesture, gives the gestured entry the x and
\* y tracked on the element and the element's width and height, keeps the
\* entry's file and preview, and changes no other entry.
C13_LayoutAtEnd ==
  [][/\ (el.kind # "none" /\ el'.kind # "none") => pending' = pending
     /\ lastOp'.op \in {"dragEnd", "resizeEnd"} =>
          LET i == lastOp'.a
          IN /\ el.kind # "none" /\ el.idx = i /\ el' = NoEl
             /\ pending'[i].x = OrElse(parseFloat(el.x), Num(0))
             /\ pending'[i].y = OrElse(parseFloat(el.y), Num(0))
             /\ pending'[i].w = el.w
             /\ pending'[i].h = el.h
             /\ pending'[i].file = pending[i].file
             /\ pending'[i].previewUrl = pending[i].previewUrl
             /\ Len(pending') = Len(pending)
             /\ \A j \in DOMAIN pending : j # i => pending'[j] = pending[j]]_vars

\* a resize of the second of several entries, two moves, ended at 96 x 80
C13_Witness ==
  /\ lastOp.op = "resizeEnd"
  /\ lastOp.a = 2
  /\ lastOp.b.moves = 2
  /\ Len(pending) >= 2
  /\ pending[2].w = 96
  /\ pending[2].h = 80
  /\ pending[1].w = baseW

\* C14: a move event whose delta of a coordinate is malformed counts as a
\* zero delta of that coordinate: a move that adds no well-formed delta to a
\* coordinate leaves the position tracked on the element as it was, and the
\* layout reported at gesture end is finite, at the entry's position before
\* the gesture plus the sum of the well-formed deltas.
C14_MalformedAsZero ==
  [][/\ (el.kind # "none" /\ el'.kind # "none") =>
          /\ el'.sumX = el.sumX => ReadDataset(el'.x) = ReadDataset(el.x)
          /\ el'.sumY = el.sumY => ReadDataset(el'.y) = ReadDataset(el.y)
     /\ lastOp'.op \in {"dragEnd", "resizeEnd"} =>
          LET i == lastOp'.a
          IN /\ IsFinite(pending'[i].x) /\ IsFinite(pending'[i].y)
             /\ pending'[i].x = JsAdd(pending[i].x, Num(el.sumX))
             /\ pending'[i].y = JsAdd(pending[i].y, Num(el.sumY))]_vars

\* r is 260 * H / W rounded to the nearest integer, halves upwards
IsRounded260(r, W, H) == 2 * W * r - W <= 520 * H /\ 520 * H < 2 * W * r + W

\* C15 as stated: every pending entry made from an image of readable
\* dimensions W x H, W > 0, starts with w = 260 and h = round(260 * H / W).
C15_Original ==
  \A j \in DOMAIN pending :
    LET d == readImageDims(pending[j].file)
    IN (d.ok /\ d.w > 0) =>
         /\ pending[j].w = 260
         /\ IsRounded260(pending[j].h, d.w, d.h)

\* C15: every pending entry made from an image of readable dimensions
\* W x H, W > 0, starts with w = 260 and h = max(160, round(260 * H / W)):
\* the rounded height where that exceeds 160, and 160 otherwise.
C15_InitialSize ==
  \A j \in DOMAIN pending :
    LET d == readImageDims(pending[j].file)
        h == pending[j].h
    IN (d.ok /\ d.w > 0) =>
         /\ pending[j].w = 260
         /\ \/ h > 160 /\ IsRounded260(h, d.w, d.h)
            \/ h = 160 /\ 520 * d.h < 2 * d.w * 160 + d.w

\* a 1200 x 800 image at h = 173 next to a 1200 x 400 image at h = 160
C15_Witness ==
  /\ Len(pending) = 2
  /\ pending[1].file = "a.png" /\ pending[1].w = 260 /\ pending[1].h = 173
  /\ pending[2].file = "wide.png" /\ pending[2].w = 260 /\ pending[2].h = 160

\* C16: when a save fails, whichever entry and whichever of uploadBytes,
\* getDownloadURL and addDoc rejected, then (the page still mounted) the
\* saving flag is false again, the save button shows its idle label and, if
\* entries are pending, the button is enabled.
C16_FailureIdle ==
  [][(lastOp'.op = "saveFailed" /\ mounted) =>
       /\ isSaving /\ ~isSaving'
       /\ SaveLabel' = "Save"
       /\ Len(pending') > 0 => ~SaveDisabled']_vars

\* the write of the second of two entries failed; the button is enabled
C16_Witness ==
  /\ lastOp.op = "saveFailed"
  /\ Ended.step = "addDoc"
  /\ Ended.i = 2
  /\ mounted
  /\ Len(pending) = 2
  /\ Len(docs) = 1
  /\ ~isSaving
  /\ ~SaveDisabled

\* C17: the persisted-item list changes only when a snapshot event is
\* delivered, and then it becomes the whole collection, newest document
\* first; that step changes nothing of the local state, and no local action
\* (selection, removal, gesture, save start, completion or failure, unmount)
\* changes the list.
C17_ItemsProjection ==
  [][\/ items' = items
     \/ /\ Len(items') = Len(docs)
        /\ \A j \in DOMAIN docs : items'[j] = docs[Len(docs) + 1 - j]
        /\ lastOp'.op = "other"
        /\ UNCHANGED <<pending, isSaving, snap, mounted, urls, nextUrl, docs,
                       selects, saves, gestures>>]_vars

\* a snapshot of two documents is shown while the save writes a third
C17_Witness ==
  /\ Len(docs) = 3
  /\ Len(items) = 2
  /\ items[1] = docs[2]
  /\ items[2] = docs[1]
  /\ items[1] # items[2]

\* C18: when a selection commits on the mounted page, each entry it appends
\* has x = y = 16 * n for the index n (counted from 0) at which it enters the
\* pending list, whatever removal, save completion or other selection
\* happened while the image dimensions were read.
C18_OffsetByIndex ==
  [][(lastOp'.op = "onSelectCommit" /\ mounted) =>
       \A j \in (Len(pending) + 1)..Len(pending') :
         /\ pending'[j].x = Num(16 * (j - 1))
         /\ pending'[j].y = Num(16 * (j - 1))]_vars

\* C19: an entry leaves the pending list only in a removeOne step or in the
\* completion of a successful save that wrote the entry's own document, and
\* the preview URL of an entry that left is revoked; so an entry appended
\* while a save is in flight is still pending when that save completes.
C19_LeavesPending ==
  [][\A j \in DOMAIN pending :
       LET u == pending[j].previewUrl
       IN u \notin PreviewUrls(pending') =>
            /\ \/ lastOp'.op = "removeOne"
               \/ /\ lastOp'.op = "saved"
                  /\ \E d \in DOMAIN docs' : docs'[d].of = u
            /\ u \notin urls']_vars

\* C20: an entry that the user removed during a save before its upload
\* started is not uploaded (and so no document is written for it): when the
\* loop of a save moves on to its next entry and starts that entry's upload,
\* the entry has not been removed during the save.
C20_RemovedNotUploaded ==
  [][\A k \in DOMAIN saves :
       (k \in DOMAIN saves' /\ saves'[k].i = saves[k].i + 1) =>
          LoopEntry(saves'[k]).previewUrl \notin saves[k].removed]_vars

\* C21: whatever selections, removals and saves happened, failed and
\* repeated saves included, no two documents of the persisted store were
\* written for the same pending entry.
C21_OneDocumentPerEntry ==
  \A i, j \in DOMAIN docs : docs[i].of = docs[j].of => i = j

====
